---- MODULE Spec2Model ----
(***************************************************************************)
(* Model of @umituz/react-native-premium: the tier resolver of             *)
(* src/utils/userTierUtils.ts (validating variant, lines 116-608), its     *)
(* predicates and its fetcher-based async wrappers.                        *)
(* Next to it PremiumService.getPremiumStatus over the host's repository,  *)
(* the zustand premium store over that service, and the useUserTier hook   *)
(* mounted on the store, each with a specification of its own.             *)
(*                                                                         *)
(* JavaScript values are tagged records: the field k is the kind of the    *)
(* value, and every kind keeps its payload in a field of its own.          *)
(* A call either returns a value or throws one; an async function that     *)
(* throws yields a rejected promise, one that returns a resolved promise.  *)
(***************************************************************************)
EXTENDS Integers, Sequences, FiniteSets, TLC

\* one call of the userTierUtils API
VARIABLES pc, call, result, fetchLog, fetched
\* one call of PremiumService.getPremiumStatus and the repository it talks to
VARIABLES svcPc, svcUser, svcStatus, svcResult, repoLog, svcGot, svcValid, svcUpdated

utilVars == <<pc, call, result, fetchLog, fetched>>
serviceVars == <<svcPc, svcUser, svcStatus, svcResult, repoLog, svcGot, svcValid, svcUpdated>>
\* the premium store, the service calls it is awaiting, and a useUserTier
\* mounted on it
VARIABLES storeState, serviceCalls, lastOp, statusOwner, latestAnswer, isPremiumValid,
          hookProps, hookOut, hookMemo, hookCallback, effectDeps, effectPending, stale

storeVars == <<storeState, serviceCalls, lastOp, statusOwner, latestAnswer, isPremiumValid>>
hookVars == <<hookProps, hookOut, hookMemo, hookCallback, effectDeps, effectPending, stale>>
vars == <<utilVars, serviceVars, storeVars, hookVars>>

(***************************************************************************)
(* Bounds                                                                  *)
(***************************************************************************)
\* longest userId string the callers supply
MaxLen == 2
\* service calls the store is awaiting at one time
MaxCalls == 2

(***************************************************************************)
(* JavaScript values                                                       *)
(***************************************************************************)
JSBool(b) == [k |-> "boolean", b |-> b]
JSStr(s) == [k |-> "string", s |-> s]
JSNum(n) == [k |-> "number", n |-> n]
null == [k |-> "null"]
undefined == [k |-> "undefined"]
JSFunction == [k |-> "function"]
\* an object seen through its isPremium property (a PremiumStatusFetcher or not)
JSObject(isPremiumProp) == [k |-> "object", isPremium |-> isPremiumProp]
\* new Error(message) / new TypeError(message)
JSError(name, message) == [k |-> "error", name |-> name, message |-> message]

true == JSBool(TRUE)
false == JSBool(FALSE)

\* the typeof operator
TypeOf(v) ==
  CASE v.k = "null" -> "object"
    [] v.k = "error" -> "object"
    [] OTHER -> v.k

\* error instanceof Error
InstanceOfError(v) == v.k = "error"

Digit(d) ==
  CASE d = 0 -> "0" [] d = 1 -> "1" [] d = 2 -> "2" [] d = 3 -> "3"
    [] d = 4 -> "4" [] d = 5 -> "5" [] d = 6 -> "6" [] d = 7 -> "7"
    [] d = 8 -> "8" [] d = 9 -> "9"

RECURSIVE NatToString(_)
NatToString(n) == IF n < 10 THEN Digit(n) ELSE NatToString(n \div 10) \o Digit(n % 10)

\* String(value)
String(v) ==
  CASE v.k = "string" -> v.s
    [] v.k = "boolean" -> IF v.b THEN "true" ELSE "false"
    [] v.k = "number" -> NatToString(v.n)
    [] v.k = "null" -> "null"
    [] v.k = "undefined" -> "undefined"
    [] v.k = "error" -> v.name \o ": " \o v.message
    [] v.k = "object" -> "[object Object]"

\* characters String.prototype.trim removes
WhiteSpace == {" ", "\t", "\n"}

LastChar(s) == SubSeq(s, Len(s), Len(s))

RECURSIVE TrimStart(_)
TrimStart(s) ==
  IF Len(s) > 0 /\ Head(s) \in WhiteSpace THEN TrimStart(Tail(s)) ELSE s

RECURSIVE TrimEnd(_)
TrimEnd(s) ==
  IF Len(s) > 0 /\ LastChar(s) \in WhiteSpace
    THEN TrimEnd(SubSeq(s, 1, Len(s) - 1))
    ELSE s

\* String.prototype.trim
Trim(s) == TrimEnd(TrimStart(s))

(***************************************************************************)
(* Outcomes of a call                                                      *)
(***************************************************************************)
Return(v) == [kind |-> "return", value |-> v]
Throw(e) == [kind |-> "throw", error |-> e]
\* a validate* function that returns normally
Ok == [kind |-> "ok"]
\* the call is suspended in `await fetcher.isPremium(userId)`
Await(userId) == [kind |-> "await", userId |-> userId]
\* no call has completed yet / the call is still pending
NoResult == [kind |-> "none"]

(***************************************************************************)
(* Type guards (userTierUtils.ts 175-206). An object literal such as a     *)
(* UserTierInfo is a record of its properties, without the field k; its    *)
(* tier is a TLA+ string.                                                  *)
(***************************************************************************)
isValidUserTier(value) ==
  value = "guest" \/ value = "freemium" \/ value = "premium"

\* typeof value !== 'object' || value === null
NotAnObject(value) ==
  "k" \in DOMAIN value /\ (TypeOf(value) # "object" \/ value = null)

\* a guard that takes userId for a string
isUserTierInfo_stringUserId(value) ==
  IF NotAnObject(value) THEN Return(false)
  ELSE Return(JSBool(/\ isValidUserTier(value.tier)
                     /\ TypeOf(value.isPremium) = "boolean"
                     /\ TypeOf(value.isGuest) = "boolean"
                     /\ TypeOf(value.isAuthenticated) = "boolean"
                     /\ TypeOf(value.userId) = "string"))

isUserTierInfo(value) ==
  IF NotAnObject(value) THEN Return(false)
  ELSE Return(JSBool(/\ isValidUserTier(value.tier)
                     /\ TypeOf(value.isPremium) = "boolean"
                     /\ TypeOf(value.isGuest) = "boolean"
                     /\ TypeOf(value.isAuthenticated) = "boolean"
                     /\ (value.userId = null \/ TypeOf(value.userId) = "string")))

(***************************************************************************)
(* Input validation (userTierUtils.ts 214-272)                             *)
(***************************************************************************)
validateUserId(userId) ==
  IF userId # null /\ TypeOf(userId) # "string"
    THEN Throw(JSError("TypeError",
           "Invalid userId: expected string or null, got " \o TypeOf(userId)))
  ELSE IF userId # null /\ Trim(userId.s) = ""
    THEN Throw(JSError("TypeError", "Invalid userId: cannot be empty string"))
  ELSE Ok

validateIsGuest(isGuestFlag) ==
  IF TypeOf(isGuestFlag) # "boolean"
    THEN Throw(JSError("TypeError",
           "Invalid isGuest: expected boolean, got " \o TypeOf(isGuestFlag)))
    ELSE Ok

\* validateIsPremium with the message copied from validateIsGuest
validateIsPremium_namesIsGuest(isPremium) ==
  IF TypeOf(isPremium) # "boolean"
    THEN Throw(JSError("TypeError",
           "Invalid isGuest: expected boolean, got " \o TypeOf(isPremium)))
    ELSE Ok

validateIsPremium(isPremium) ==
  IF TypeOf(isPremium) # "boolean"
    THEN Throw(JSError("TypeError",
           "Invalid isPremium: expected boolean, got " \o TypeOf(isPremium)))
    ELSE Ok

validateFetcher(fetcher) ==
  IF TypeOf(fetcher) # "object" \/ fetcher = null
    THEN Throw(JSError("TypeError",
           "Invalid fetcher: expected object, got " \o TypeOf(fetcher)))
  ELSE IF TypeOf(fetcher.isPremium) # "function"
    THEN Throw(JSError("TypeError", "Invalid fetcher: isPremium must be a function"))
  ELSE Ok

\* the first validation that throws, in the order the statements run
FirstThrow(checks) ==
  IF \E i \in 1..Len(checks) : checks[i].kind = "throw"
    THEN checks[CHOOSE i \in 1..Len(checks) :
                  /\ checks[i].kind = "throw"
                  /\ \A j \in 1..(i - 1) : checks[j].kind # "throw"]
    ELSE Ok

(***************************************************************************)
(* Tier resolver and predicates (userTierUtils.ts 293-380, 487-502)        *)
(***************************************************************************)
\* isAuthenticated deciding on the user id alone
isAuthenticated_ignoresGuestFlag(isGuestFlag, userId) ==
  LET v == FirstThrow(<<validateIsGuest(isGuestFlag), validateUserId(userId)>>)
  IN  IF v.kind = "throw" THEN v
      ELSE Return(JSBool(userId # null))

isAuthenticated(isGuestFlag, userId) ==
  LET v == FirstThrow(<<validateIsGuest(isGuestFlag), validateUserId(userId)>>)
  IN  IF v.kind = "throw" THEN v
      ELSE Return(JSBool(~isGuestFlag.b /\ userId # null))

\* isGuest deciding on the flag alone
isGuest_flagOnly(isGuestFlag, userId) ==
  LET v == FirstThrow(<<validateIsGuest(isGuestFlag), validateUserId(userId)>>)
  IN  IF v.kind = "throw" THEN v
      ELSE Return(JSBool(isGuestFlag.b))

isGuest(isGuestFlag, userId) ==
  LET v == FirstThrow(<<validateIsGuest(isGuestFlag), validateUserId(userId)>>)
  IN  IF v.kind = "throw" THEN v
      ELSE Return(JSBool(isGuestFlag.b \/ userId = null))

\* getUserTierInfo with the guest branch keeping what the caller supplied
getUserTierInfo_guestKeepsInputs(isGuestFlag, userId, isPremium) ==
  LET v == FirstThrow(<<validateIsGuest(isGuestFlag), validateUserId(userId),
                        validateIsPremium(isPremium)>>)
  IN  IF v.kind = "throw" THEN v
      ELSE IF isGuestFlag.b \/ userId = null
        THEN Return([tier |-> "guest", isPremium |-> isPremium, isGuest |-> true,
                     isAuthenticated |-> false, userId |-> userId])
        ELSE Return([tier |-> IF isPremium.b THEN "premium" ELSE "freemium",
                     isPremium |-> isPremium, isGuest |-> false,
                     isAuthenticated |-> true, userId |-> userId])

\* getUserTierInfo returning the userId normalised by trim()
getUserTierInfo_trimsUserId(isGuestFlag, userId, isPremium) ==
  LET v == FirstThrow(<<validateIsGuest(isGuestFlag), validateUserId(userId),
                        validateIsPremium(isPremium)>>)
  IN  IF v.kind = "throw" THEN v
      ELSE IF isGuestFlag.b \/ userId = null
        THEN Return([tier |-> "guest", isPremium |-> false, isGuest |-> true,
                     isAuthenticated |-> false, userId |-> null])
        ELSE Return([tier |-> IF isPremium.b THEN "premium" ELSE "freemium",
                     isPremium |-> isPremium, isGuest |-> false,
                     isAuthenticated |-> true, userId |-> JSStr(Trim(userId.s))])

\* getUserTierInfo applying the guest rule before it validates userId and isPremium
getUserTierInfo_guestRuleFirst(isGuestFlag, userId, isPremium) ==
  LET v == FirstThrow(<<validateIsGuest(isGuestFlag)>>)
      w == FirstThrow(<<validateUserId(userId), validateIsPremium(isPremium)>>)
  IN  IF v.kind = "throw" THEN v
      ELSE IF isGuestFlag.b \/ userId = null
        THEN Return([tier |-> "guest", isPremium |-> false, isGuest |-> true,
                     isAuthenticated |-> false, userId |-> null])
      ELSE IF w.kind = "throw" THEN w
      ELSE Return([tier |-> IF isPremium.b THEN "premium" ELSE "freemium",
                   isPremium |-> isPremium, isGuest |-> false,
                   isAuthenticated |-> true, userId |-> userId])

getUserTierInfo(isGuestFlag, userId, isPremium) ==
  LET v == FirstThrow(<<validateIsGuest(isGuestFlag), validateUserId(userId),
                        validateIsPremium(isPremium)>>)
  IN  IF v.kind = "throw" THEN v
      ELSE IF isGuestFlag.b \/ userId = null
        THEN Return([tier |-> "guest", isPremium |-> false, isGuest |-> true,
                     isAuthenticated |-> false, userId |-> null])
        ELSE Return([tier |-> IF isPremium.b THEN "premium" ELSE "freemium",
                     isPremium |-> isPremium, isGuest |-> false,
                     isAuthenticated |-> true, userId |-> userId])

\* checkPremiumAccess without the validateIsPremium call
checkPremiumAccess_premiumUnchecked(isGuestFlag, userId, isPremium) ==
  LET v == FirstThrow(<<validateIsGuest(isGuestFlag), validateUserId(userId)>>)
  IN  IF v.kind = "throw" THEN v
      ELSE IF isGuestFlag.b \/ userId = null
        THEN Return(false)
        ELSE Return(isPremium)

checkPremiumAccess(isGuestFlag, userId, isPremium) ==
  LET v == FirstThrow(<<validateIsGuest(isGuestFlag), validateUserId(userId),
                        validateIsPremium(isPremium)>>)
  IN  IF v.kind = "throw" THEN v
      ELSE IF isGuestFlag.b \/ userId = null
        THEN Return(false)
        ELSE Return(isPremium)

(***************************************************************************)
(* The earlier, non-validating resolver (userTierUtils.ts 663-722): the    *)
(* arguments are used as they come, `isGuest || !userId` by truthiness.    *)
(***************************************************************************)
\* ToBoolean of a JavaScript value
ToBoolean(v) ==
  CASE v.k = "boolean" -> v.b
    [] v.k = "string" -> v.s # ""
    [] v.k = "number" -> v.n # 0
    [] v.k \in {"null", "undefined"} -> FALSE
    [] OTHER -> TRUE

NonValidating_getUserTierInfo(isGuestFlag, userId, isPremium) ==
  IF ToBoolean(isGuestFlag) \/ ~ToBoolean(userId)
    THEN Return([tier |-> "guest", isPremium |-> false, isGuest |-> true,
                 isAuthenticated |-> false, userId |-> null])
    ELSE Return([tier |-> IF ToBoolean(isPremium) THEN "premium" ELSE "freemium",
                 isPremium |-> isPremium, isGuest |-> false,
                 isAuthenticated |-> true, userId |-> userId])

\* the earlier checkPremiumAccess looking at the guest flag alone
NonValidating_checkPremiumAccess_flagOnly(isGuestFlag, userId, isPremium) ==
  IF ToBoolean(isGuestFlag)
    THEN Return(false)
    ELSE Return(isPremium)

NonValidating_checkPremiumAccess(isGuestFlag, userId, isPremium) ==
  IF ToBoolean(isGuestFlag) \/ ~ToBoolean(userId)
    THEN Return(false)
    ELSE Return(isPremium)

(***************************************************************************)
(* The PremiumService-based async variant (userTierUtils.ts 75-113). Its   *)
(* getUserTierInfo (lines 41-65) has the body of the non-validating one.   *)
(* __DEV__ is the global React Native defines, so the catch block logs     *)
(* and returns.                                                            *)
(***************************************************************************)
\* checkPremiumAccess up to its only suspension point: a settled outcome, or
\* Await(userId) when premiumService.isPremium(userId) has been invoked. A
\* premiumService without the method throws a TypeError inside the try block
ServiceVariant_checkPremiumAccess(isGuestFlag, userId, premiumService) ==
  IF ToBoolean(isGuestFlag) \/ ~ToBoolean(userId)
    THEN Return(false)
  ELSE IF premiumService \in {null, undefined} \/ premiumService.isPremium # JSFunction
    THEN Return(false)
    ELSE Await(userId)

\* a catch block that passes the failure on
ServiceVariant_checkPremiumAccessSettled_rethrows(settled) ==
  IF settled.kind = "return"
    THEN Return(settled.value)
    ELSE Throw(settled.error)

\* checkPremiumAccess from the settlement of premiumService.isPremium on
ServiceVariant_checkPremiumAccessSettled(settled) ==
  IF settled.kind = "return"
    THEN Return(settled.value)
    ELSE Return(false)

\* getUserTierInfoAsync once `await checkPremiumAccess(...)` has settled
ServiceVariant_getUserTierInfoAsync(isGuestFlag, userId, premium) ==
  IF premium.kind = "throw" THEN premium
  ELSE NonValidating_getUserTierInfo(isGuestFlag, userId, premium.value)

\* what the function named fn does with checkPremiumAccess's outcome
ServiceVariant_Continue(fn, isGuestFlag, userId, premium) ==
  CASE fn = "ServiceVariant_checkPremiumAccess" -> premium
    [] fn = "ServiceVariant_getUserTierInfoAsync" ->
         ServiceVariant_getUserTierInfoAsync(isGuestFlag, userId, premium)

(***************************************************************************)
(* Async wrappers (userTierUtils.ts 406-463, 524-534)                      *)
(***************************************************************************)
\* getIsPremium without the guest short-circuit: every valid call reaches the fetcher
getIsPremium_noShortCircuit(isGuestFlag, userId, fetcher) ==
  LET v == FirstThrow(<<validateIsGuest(isGuestFlag), validateUserId(userId),
                        validateFetcher(fetcher)>>)
  IN  IF v.kind = "throw" THEN v
      ELSE Await(userId)

\* getIsPremium validating the fetcher only on the path that uses it
getIsPremium_lateFetcherCheck(isGuestFlag, userId, fetcher) ==
  LET v == FirstThrow(<<validateIsGuest(isGuestFlag), validateUserId(userId)>>)
      w == validateFetcher(fetcher)
  IN  IF v.kind = "throw" THEN v
      ELSE IF isGuestFlag.b \/ userId = null
        THEN Return(false)
      ELSE IF w.kind = "throw" THEN w
      ELSE Await(userId)

\* getIsPremium up to its only suspension point: a settled outcome, or
\* Await(userId) when fetcher.isPremium(userId) has been invoked
getIsPremium(isGuestFlag, userId, fetcher) ==
  LET v == FirstThrow(<<validateIsGuest(isGuestFlag), validateUserId(userId),
                        validateFetcher(fetcher)>>)
  IN  IF v.kind = "throw" THEN v
      ELSE IF isGuestFlag.b \/ userId = null
        THEN Return(false)
        ELSE Await(userId)

\* the catch block of the PremiumService variant (lines 88-95): fail safe to false
getIsPremiumSettled_failSafe(settled) ==
  IF settled.kind = "return"
    THEN Return(settled.value)
    ELSE Return(false)

\* a catch block that lets the user through when the fetcher fails
getIsPremiumSettled_failOpen(settled) ==
  IF settled.kind = "return"
    THEN Return(settled.value)
    ELSE Return(true)

\* getIsPremium from the settlement of fetcher.isPremium on: the try/catch
getIsPremiumSettled(settled) ==
  IF settled.kind = "return"
    THEN Return(settled.value)
    ELSE Throw(JSError("Error",
           "Failed to fetch premium status: " \o
             (IF InstanceOfError(settled.error)
                THEN settled.error.message
                ELSE String(settled.error))))

\* getUserTierInfoAsync resolving the tier from the guest flag alone
getUserTierInfoAsync_dropsFetched(isGuestFlag, userId, premium) ==
  IF premium.kind = "throw" THEN premium
  ELSE getUserTierInfo(isGuestFlag, userId, false)

\* getUserTierInfoAsync once `await getIsPremium(...)` has settled
getUserTierInfoAsync(isGuestFlag, userId, premium) ==
  IF premium.kind = "throw" THEN premium
  ELSE getUserTierInfo(isGuestFlag, userId, premium.value)

\* checkPremiumAccessAsync once `await getIsPremium(...)` has settled
checkPremiumAccessAsync(isGuestFlag, userId, premium) ==
  IF premium.kind = "throw" THEN premium
  ELSE checkPremiumAccess(isGuestFlag, userId, premium.value)

\* what the async function named fn does with getIsPremium's outcome
Continue(fn, isGuestFlag, userId, premium) ==
  CASE fn = "getIsPremium" -> premium
    [] fn = "getUserTierInfoAsync" -> getUserTierInfoAsync(isGuestFlag, userId, premium)
    [] fn = "checkPremiumAccessAsync" -> checkPremiumAccessAsync(isGuestFlag, userId, premium)

(***************************************************************************)
(* Tier comparison (userTierUtils.ts 552-560)                              *)
(***************************************************************************)
UserTier == {"guest", "freemium", "premium"}

tierLevels == [t \in UserTier |->
                 CASE t = "guest" -> 0 [] t = "freemium" -> 1 [] t = "premium" -> 2]

\* hasTierAccess comparing with > instead of >=
hasTierAccess_strict(tier1, tier2) ==
  Return(JSBool(tierLevels[tier1] > tierLevels[tier2]))

\* hasTierAccess that also grants the tier one above
hasTierAccess_oneTierAbove(tier1, tier2) ==
  Return(JSBool(tierLevels[tier1] + 1 >= tierLevels[tier2]))

hasTierAccess(tier1, tier2) ==
  Return(JSBool(tierLevels[tier1] >= tierLevels[tier2]))

(***************************************************************************)
(* PremiumStatus (core/entities/PremiumStatus.ts) and PremiumService        *)
(* (infrastructure/services/PremiumService.ts 12-84)                        *)
(***************************************************************************)
PremiumStatus(isPremium, expiresAt, productId, purchasedAt, customerId, syncedAt) ==
  [isPremium |-> isPremium, expiresAt |-> expiresAt, productId |-> productId,
   purchasedAt |-> purchasedAt, revenuecatCustomerId |-> customerId,
   syncedAt |-> syncedAt]

createDefaultPremiumStatus == PremiumStatus(false, null, null, null, null, null)

\* if (!status): what the repository returned is null or undefined
Falsy(v) == v = null \/ v = undefined

\* the repository call getPremiumStatus(userId)
RepoGet(userId) == [op |-> "getPremiumStatus", userId |-> userId]
\* the repository call isPremiumValid(status)
RepoValid(status) == [op |-> "isPremiumValid", status |-> status]
\* the repository call updatePremiumStatus(userId, updates)
RepoUpdate(userId, updates) ==
  [op |-> "updatePremiumStatus", userId |-> userId, updates |-> updates]

\* PremiumService.updatePremiumStatus up to its await: the repository call it
\* makes, stamp being new Date().toISOString()
updatePremiumStatus(userId, updates, stamp) ==
  RepoUpdate(userId, [f \in DOMAIN updates \cup {"syncedAt"} |->
                        IF f = "syncedAt" THEN JSStr(stamp) ELSE updates[f]])

\* the update getPremiumStatus asks for when premium has expired
ExpiredUpdates == [isPremium |-> false, expiresAt |-> null]

\* getPremiumStatus holding an expired premium status and keeping its expiresAt
getPremiumStatusExpired_keepsExpiry(status) ==
  [status EXCEPT !.isPremium = false]

\* { ...status, isPremium: false, expiresAt: null }
getPremiumStatusExpired(status) ==
  [status EXCEPT !.isPremium = false, !.expiresAt = null]

\* getPremiumStatus from the settlement of repository.getPremiumStatus to its
\* next await or return; valid is the outcome of repository.isPremiumValid
getPremiumStatusGot(got, valid) ==
  IF got.kind = "throw" THEN Return(createDefaultPremiumStatus)
  ELSE IF Falsy(got.value) THEN Return(createDefaultPremiumStatus)
  ELSE IF valid.kind = "throw" THEN Return(createDefaultPremiumStatus)
  ELSE IF ~valid.value.b /\ got.value.isPremium.b
    THEN [kind |-> "await"]
    ELSE Return(got.value)

\* getPremiumStatus letting a failed write escape
getPremiumStatusUpdated_rejects(status, updated) ==
  IF updated.kind = "throw" THEN updated
  ELSE Return(getPremiumStatusExpired(status))

\* getPremiumStatus from the settlement of this.updatePremiumStatus on;
\* updatePremiumStatus rethrows what the repository rejected with
getPremiumStatusUpdated(status, updated) ==
  IF updated.kind = "throw" THEN Return(createDefaultPremiumStatus)
  ELSE Return(getPremiumStatusExpired(status))

(***************************************************************************)
(* Premium store (infrastructure/storage/PremiumStore, src/unnamed/part_002)*)
(* The zustand state is a record; an async action is split at its await:   *)
(* the part before it says whether the premium service is called, the part *)
(* after it takes the settlement of that call.                             *)
(***************************************************************************)
StoreState(status, loading, error) ==
  [status |-> status, loading |-> loading, error |-> error]

\* status: null, loading: false, error: null
InitialStoreState == StoreState(null, FALSE, null)

\* zustand's set(partial): the given fields replace those of the state
set(state, partial) ==
  [f \in DOMAIN state |-> IF f \in DOMAIN partial THEN partial[f] ELSE state[f]]

\* error.message || text
MessageOr(cause, text) ==
  IF cause.k = "error" /\ cause.message # "" THEN JSStr(cause.message) ELSE JSStr(text)

\* reading error.message of null or undefined throws inside the catch block
NoMessageProperty(cause) == cause = null \/ cause = undefined

\* a store action up to its await: the state it leaves and whether it has
\* called the premium service
Started(state, calls) == [state |-> state, calls |-> calls]

\* loadPremiumStatus without its guard
loadPremiumStatus_unguarded(state) ==
  Started(set(state, [loading |-> TRUE, error |-> null]), TRUE)

loadPremiumStatus(state) ==
  IF state.loading \/ ~Falsy(state.status) THEN Started(state, FALSE)
  ELSE Started(set(state, [loading |-> TRUE, error |-> null]), TRUE)

refreshPremiumStatus(state) ==
  Started(set(state, [loading |-> TRUE, error |-> null]), TRUE)

\* the store's updatePremiumStatus
storeUpdatePremiumStatus(state) ==
  Started(set(state, [loading |-> TRUE, error |-> null]), TRUE)

clearPremiumStatus(state) ==
  set(state, [status |-> null, loading |-> FALSE, error |-> null])

\* the try/catch around the awaited service call: settled is how the call
\* ended, failed the partial state the catch block sets besides the error
AfterService(state, settled, failed, text) ==
  IF settled.kind = "return"
    THEN set(state, [status |-> settled.value, loading |-> FALSE, error |-> null])
  ELSE IF NoMessageProperty(settled.error) THEN state
  ELSE set(state, [f \in DOMAIN failed \cup {"error"} |->
                     IF f = "error" THEN MessageOr(settled.error, text) ELSE failed[f]])

loadPremiumStatusSettled(state, settled) ==
  AfterService(state, settled, [status |-> null, loading |-> FALSE],
               "Failed to load premium status")

refreshPremiumStatusSettled(state, settled) ==
  AfterService(state, settled, [loading |-> FALSE], "Failed to refresh premium status")

storeUpdatePremiumStatusSettled(state, settled) ==
  AfterService(state, settled, [loading |-> FALSE], "Failed to update premium status")

\* the promise a store action returns once the service call has settled: it
\* rejects only when the catch block itself throws
StorePromise(settled) ==
  IF settled.kind = "throw" /\ NoMessageProperty(settled.error)
    THEN Throw(JSError("TypeError", "Cannot read properties of " \o
                                    settled.error.k \o " (reading 'message')"))
    ELSE Return(undefined)

(***************************************************************************)
(* useUserTier (presentation/hooks/useUserTier.ts 76-122)                  *)
(***************************************************************************)
\* !userId
NoUserId(userId) == Falsy(userId) \/ userId = JSStr("")

\* a tierInfo that trusts status.isPremium and never asks the repository
tierInfo_trustsStatus(isGuestFlag, userId, status, validStatuses) ==
  IF isGuestFlag.b \/ NoUserId(userId) THEN getUserTierInfo(true, null, false)
  ELSE getUserTierInfo(false, userId,
                       JSBool(status # null /\ status.isPremium.b))

\* the function given to useMemo; validStatuses are the statuses for which
\* premiumRepository.isPremiumValid answers true
tierInfo(isGuestFlag, userId, status, validStatuses) ==
  IF isGuestFlag.b \/ NoUserId(userId) THEN getUserTierInfo(true, null, false)
  ELSE getUserTierInfo(false, userId,
                       JSBool(status # null /\ status \in validStatuses))

\* useMemo / useCallback: the cell of the previous render is kept while the
\* dependencies are the same, and replaced by the new value otherwise
Memoized(deps, value) == [kind |-> "memo", deps |-> deps, value |-> value]
useMemo(cell, deps, value) ==
  IF cell.kind = "memo" /\ cell.deps = deps THEN cell ELSE Memoized(deps, value)

\* what the refresh callback created by a render closes over
RefreshClosure(isGuestFlag, userId) == [isGuest |-> isGuestFlag, userId |-> userId]

\* a result that reports loading and error for authenticated users only
HookResult_hidesFromGuests(info, state, refresh) ==
  [tier |-> info.tier, isPremium |-> info.isPremium, isGuest |-> info.isGuest,
   isAuthenticated |-> info.isAuthenticated, userId |-> info.userId,
   isLoading |-> state.loading /\ ~info.isGuest.b,
   error |-> IF info.isGuest.b THEN null ELSE state.error, refresh |-> refresh]

\* { ...tierInfo, isLoading: loading, error, refresh }
HookResult(info, state, refresh) ==
  [tier |-> info.tier, isPremium |-> info.isPremium, isGuest |-> info.isGuest,
   isAuthenticated |-> info.isAuthenticated, userId |-> info.userId,
   isLoading |-> state.loading, error |-> state.error, refresh |-> refresh]

\* one render: the memo cells it leaves and what it returns (or throws, when
\* getUserTierInfo rejects the inputs)
Rendered(memo, callback, out) == [memo |-> memo, callback |-> callback, out |-> out]

\* useUserTier whose useMemo does not list status among its dependencies
useUserTier_memoWithoutStatus(isGuestFlag, userId, state, memo, callback, validStatuses) ==
  LET m == useMemo(memo, <<isGuestFlag, userId>>,
                   tierInfo(isGuestFlag, userId, state.status, validStatuses))
      c == useMemo(callback, <<userId, isGuestFlag>>, RefreshClosure(isGuestFlag, userId))
  IN  Rendered(m, c, IF m.value.kind = "throw" THEN m.value
                     ELSE Return(HookResult(m.value.value, state, c.value)))

useUserTier(isGuestFlag, userId, state, memo, callback, validStatuses) ==
  LET m == useMemo(memo, <<isGuestFlag, userId, state.status>>,
                   tierInfo(isGuestFlag, userId, state.status, validStatuses))
      c == useMemo(callback, <<userId, isGuestFlag>>, RefreshClosure(isGuestFlag, userId))
  IN  Rendered(m, c, IF m.value.kind = "throw" THEN m.value
                     ELSE Return(HookResult(m.value.value, state, c.value)))

\* a callback of the hook: the store action it invokes, if any
Invokes(op, userId) == [op |-> op, userId |-> userId]
InvokesNothing == Invokes("none", null)

\* an effect that loads for every userId, guest or not
useEffect_loadsForGuests(isGuestFlag, userId) ==
  IF NoUserId(userId) THEN InvokesNothing
  ELSE Invokes("loadPremiumStatus", userId)

\* the effect: loadPremiumStatus(userId) unless the inputs are a guest's
useEffect(isGuestFlag, userId) ==
  IF isGuestFlag.b \/ NoUserId(userId) THEN InvokesNothing
  ELSE Invokes("loadPremiumStatus", userId)

\* a refresh callback that looks at userId only
refresh_ignoresGuestFlag(closure) ==
  IF NoUserId(closure.userId) THEN InvokesNothing
  ELSE Invokes("refreshPremiumStatus", closure.userId)

\* the refresh callback: refreshPremiumStatus(userId) unless its inputs are a guest's
refresh(closure) ==
  IF closure.isGuest.b \/ NoUserId(closure.userId) THEN InvokesNothing
  ELSE Invokes("refreshPremiumStatus", closure.userId)

(***************************************************************************)
(* Inputs the callers supply                                               *)
(***************************************************************************)
Chars == {"u", "v", " ", "\t"}

RECURSIVE Strings(_)
Strings(n) ==
  IF n = 0 THEN {""}
  ELSE Strings(n - 1) \cup {s \o c : s \in Strings(n - 1), c \in Chars}

GuestFlagValues == {true, false, JSStr("invalid"), null, undefined}
UserIdValues == {null, undefined, JSNum(123)} \cup {JSStr(s) : s \in Strings(MaxLen)}
PremiumValues == {true, false, JSStr("invalid"), undefined}
FetcherValues == {JSObject(JSFunction), JSObject(undefined), null, undefined}
\* what the application's fetcher may resolve to, and reject with
FetchedValues == {true, false, undefined}
FetchCauses == {JSError("Error", "Database error"), JSError("Error", "db error"),
                JSStr("String error"), JSNum(503), undefined}

\* what the host's repository holds, returns and fails with
ServiceUserIds == {JSStr("u"), JSStr("v"), JSStr("w")}
RepoRecords ==
  {PremiumStatus(true, JSStr("2025-01-01T00:00:00.000Z"), JSStr("app_premium_monthly"),
                 JSStr("2024-12-01T00:00:00.000Z"), JSStr("rc_1"),
                 JSStr("2024-12-01T00:00:00.000Z")),
   PremiumStatus(true, null, JSStr("app_premium_lifetime"),
                 JSStr("2024-12-01T00:00:00.000Z"), null, null),
   PremiumStatus(false, JSStr("2025-01-01T00:00:00.000Z"), JSStr("app_premium_monthly"),
                 JSStr("2024-12-01T00:00:00.000Z"), JSStr("rc_1"), null)}
RepoGetValues == RepoRecords \cup {null, undefined}
ValidityOutcomes == {Return(true), Return(false), Throw(JSError("Error", "Invalid Date"))}
RepoCauses == {JSError("Error", "permission-denied"), JSStr("offline")}
\* new Date().toISOString()
Timestamps == {"2026-01-01T00:00:00.000Z", "2026-06-01T00:00:00.000Z"}

\* what the premium service hands to the store, and what it rejects with
StoreUserIds == {JSStr("u"), JSStr("v")}
StoreStatuses ==
  {PremiumStatus(true, JSStr("2025-01-01T00:00:00.000Z"), JSStr("app_premium_monthly"),
                 JSStr("2024-12-01T00:00:00.000Z"), JSStr("rc_1"),
                 JSStr("2024-12-01T00:00:00.000Z")),
   createDefaultPremiumStatus}
StoreCauses == {JSError("Error", "permission-denied"), JSStr("offline"), undefined}
StoreSettlements ==
  {Return(status) : status \in StoreStatuses} \cup {Throw(cause) : cause \in StoreCauses}
\* the host's premiumRepository.isPremiumValid, as the set of statuses it
\* answers true for: a status with isPremium = false is never valid, one with
\* isPremium = true is valid or expired
RepositoryAnswers == SUBSET {status \in StoreStatuses : status.isPremium.b}
\* how the calls of the store under a mounted hook end
HookSettlements ==
  {Return(status) : status \in StoreStatuses} \cup
  {Throw(JSError("Error", "permission-denied")), Throw(undefined)}
\* what the application renders the hook with
HookGuestFlags == {true, false}
HookUserIds == {null} \cup StoreUserIds

AsyncFns == {"getIsPremium", "getUserTierInfoAsync", "checkPremiumAccessAsync"}
ServiceVariantFns == {"ServiceVariant_checkPremiumAccess",
                      "ServiceVariant_getUserTierInfoAsync"}

(***************************************************************************)
(* State machine of one call of the module's API. The functions keep no    *)
(* state between calls, so a behaviour is a single call: pc is "idle"      *)
(* before it, "awaitFetch" while it is suspended in the fetcher and "done" *)
(* once it has returned or thrown. fetchLog lists the arguments            *)
(* fetcher.isPremium has been invoked with during the call, fetched is the *)
(* settlement of the promise it returned. A call of the PremiumService     *)
(* variant is "awaitService" while suspended in premiumService.isPremium,  *)
(* which fetchLog and fetched then record.                                 *)
(***************************************************************************)
NoCall == [fn |-> "none"]

UtilInit ==
  /\ pc = "idle"
  /\ call = NoCall
  /\ result = NoResult
  /\ fetchLog = <<>>
  /\ fetched = NoResult

ServiceInit ==
  /\ svcPc = "idle"
  /\ svcUser = null
  /\ svcStatus = null
  /\ svcResult = NoResult
  /\ repoLog = <<>>
  /\ svcGot = NoResult
  /\ svcValid = NoResult
  /\ svcUpdated = NoResult

StoreInit ==
  /\ storeState = InitialStoreState
  /\ serviceCalls = <<>>
  /\ lastOp = [by |-> "none", op |-> "none", userId |-> null, called |-> FALSE,
               settled |-> NoResult]
  /\ statusOwner = null
  /\ latestAnswer = NoResult
  /\ isPremiumValid \in RepositoryAnswers
HookInit ==
  /\ hookProps = NoResult
  /\ hookOut = NoResult
  /\ hookMemo = NoResult
  /\ hookCallback = NoResult
  /\ effectDeps = NoResult
  /\ effectPending = FALSE
  /\ stale = FALSE
Init == UtilInit /\ ServiceInit /\ StoreInit /\ HookInit

\* a step of one component leaves the others alone
UtilFrame == UNCHANGED <<serviceVars, storeVars, hookVars>>
ServiceFrame == UNCHANGED <<utilVars, storeVars, hookVars>>
StoreFrame == UNCHANGED <<utilVars, serviceVars>>

Settle(c, r) ==
  /\ call' = c
  /\ result' = r
  /\ pc' = "done"

Call_isAuthenticated(g, u) ==
  /\ pc = "idle"
  /\ UtilFrame
  /\ Settle([fn |-> "isAuthenticated", isGuestFlag |-> g, userId |-> u],
            isAuthenticated(g, u))
  /\ UNCHANGED <<fetchLog, fetched>>

Call_isGuest(g, u) ==
  /\ pc = "idle"
  /\ UtilFrame
  /\ Settle([fn |-> "isGuest", isGuestFlag |-> g, userId |-> u], isGuest(g, u))
  /\ UNCHANGED <<fetchLog, fetched>>

Call_getUserTierInfo(g, u, p) ==
  /\ pc = "idle"
  /\ UtilFrame
  /\ Settle([fn |-> "getUserTierInfo", isGuestFlag |-> g, userId |-> u, isPremium |-> p],
            getUserTierInfo(g, u, p))
  /\ UNCHANGED <<fetchLog, fetched>>

Call_checkPremiumAccess(g, u, p) ==
  /\ pc = "idle"
  /\ UtilFrame
  /\ Settle([fn |-> "checkPremiumAccess", isGuestFlag |-> g, userId |-> u, isPremium |-> p],
            checkPremiumAccess(g, u, p))
  /\ UNCHANGED <<fetchLog, fetched>>

Call_hasTierAccess(t1, t2) ==
  /\ pc = "idle"
  /\ UtilFrame
  /\ Settle([fn |-> "hasTierAccess", tier1 |-> t1, tier2 |-> t2], hasTierAccess(t1, t2))
  /\ UNCHANGED <<fetchLog, fetched>>

\* the earlier getUserTierInfo is called
Call_NonValidating_getUserTierInfo(g, u, p) ==
  /\ pc = "idle"
  /\ UtilFrame
  /\ Settle([fn |-> "NonValidating_getUserTierInfo", isGuestFlag |-> g, userId |-> u,
             isPremium |-> p],
            NonValidating_getUserTierInfo(g, u, p))
  /\ UNCHANGED <<fetchLog, fetched>>

\* the earlier checkPremiumAccess is called
Call_NonValidating_checkPremiumAccess(g, u, p) ==
  /\ pc = "idle"
  /\ UtilFrame
  /\ Settle([fn |-> "NonValidating_checkPremiumAccess", isGuestFlag |-> g, userId |-> u,
             isPremium |-> p],
            NonValidating_checkPremiumAccess(g, u, p))
  /\ UNCHANGED <<fetchLog, fetched>>

\* getIsPremium, getUserTierInfoAsync or checkPremiumAccessAsync is called:
\* it settles at once or invokes the fetcher and suspends
Call_async(fn, g, u, f) ==
  /\ pc = "idle"
  /\ UtilFrame
  /\ LET r == getIsPremium(g, u, f)
         c == [fn |-> fn, isGuestFlag |-> g, userId |-> u, fetcher |-> f]
     IN  IF r.kind = "await"
           THEN /\ call' = c
                /\ pc' = "awaitFetch"
                /\ result' = NoResult
                /\ fetchLog' = Append(fetchLog, r.userId)
                /\ UNCHANGED fetched
           ELSE /\ Settle(c, Continue(fn, g, u, r))
                /\ UNCHANGED <<fetchLog, fetched>>

\* the promise of fetcher.isPremium resolves to v
FetcherResolves(v) ==
  /\ pc = "awaitFetch"
  /\ UtilFrame
  /\ Settle(call, Continue(call.fn, call.isGuestFlag, call.userId,
                           getIsPremiumSettled(Return(v))))
  /\ fetched' = Return(v)
  /\ UNCHANGED fetchLog

\* the promise of fetcher.isPremium rejects with cause (or the call throws it)
FetcherRejects(cause) ==
  /\ pc = "awaitFetch"
  /\ UtilFrame
  /\ Settle(call, Continue(call.fn, call.isGuestFlag, call.userId,
                           getIsPremiumSettled(Throw(cause))))
  /\ fetched' = Throw(cause)
  /\ UNCHANGED fetchLog

\* checkPremiumAccess or getUserTierInfoAsync of the PremiumService variant is
\* called: it settles at once or invokes premiumService.isPremium and suspends
Call_serviceVariant(fn, g, u, service) ==
  /\ pc = "idle"
  /\ UtilFrame
  /\ LET r == ServiceVariant_checkPremiumAccess(g, u, service)
         c == [fn |-> fn, isGuestFlag |-> g, userId |-> u, premiumService |-> service]
     IN  IF r.kind = "await"
           THEN /\ call' = c
                /\ pc' = "awaitService"
                /\ result' = NoResult
                /\ fetchLog' = Append(fetchLog, r.userId)
                /\ UNCHANGED fetched
           ELSE /\ Settle(c, ServiceVariant_Continue(fn, g, u, r))
                /\ UNCHANGED <<fetchLog, fetched>>

\* the promise of premiumService.isPremium resolves to v
IsPremiumResolves(v) ==
  /\ pc = "awaitService"
  /\ UtilFrame
  /\ Settle(call, ServiceVariant_Continue(call.fn, call.isGuestFlag, call.userId,
                     ServiceVariant_checkPremiumAccessSettled(Return(v))))
  /\ fetched' = Return(v)
  /\ UNCHANGED fetchLog

\* the promise of premiumService.isPremium rejects with cause
IsPremiumRejects(cause) ==
  /\ pc = "awaitService"
  /\ UtilFrame
  /\ Settle(call, ServiceVariant_Continue(call.fn, call.isGuestFlag, call.userId,
                     ServiceVariant_checkPremiumAccessSettled(Throw(cause))))
  /\ fetched' = Throw(cause)
  /\ UNCHANGED fetchLog

Next ==
  \/ \E g \in GuestFlagValues, u \in UserIdValues : Call_isAuthenticated(g, u)
  \/ \E g \in GuestFlagValues, u \in UserIdValues : Call_isGuest(g, u)
  \/ \E g \in GuestFlagValues, u \in UserIdValues, p \in PremiumValues :
       Call_getUserTierInfo(g, u, p)
  \/ \E g \in GuestFlagValues, u \in UserIdValues, p \in PremiumValues :
       Call_checkPremiumAccess(g, u, p)
  \/ \E t1 \in UserTier, t2 \in UserTier : Call_hasTierAccess(t1, t2)
  \/ \E g \in GuestFlagValues, u \in UserIdValues, p \in PremiumValues :
       Call_NonValidating_getUserTierInfo(g, u, p)
  \/ \E g \in GuestFlagValues, u \in UserIdValues, p \in PremiumValues :
       Call_NonValidating_checkPremiumAccess(g, u, p)
  \/ \E fn \in AsyncFns, g \in GuestFlagValues, u \in UserIdValues, f \in FetcherValues :
       Call_async(fn, g, u, f)
  \/ \E v \in FetchedValues : FetcherResolves(v)
  \/ \E c \in FetchCauses : FetcherRejects(c)
  \/ \E fn \in ServiceVariantFns, g \in GuestFlagValues, u \in UserIdValues,
        service \in FetcherValues :
       Call_serviceVariant(fn, g, u, service)
  \/ \E v \in FetchedValues : IsPremiumResolves(v)
  \/ \E c \in FetchCauses : IsPremiumRejects(c)

Spec == Init /\ [][Next]_vars

(***************************************************************************)
(* State machine of one call of PremiumService.getPremiumStatus: svcPc is  *)
(* "awaitGet" while repository.getPremiumStatus is pending, "awaitUpdate"  *)
(* while the write of an expired status is. repoLog lists the repository   *)
(* calls made; svcGot, svcValid and svcUpdated are how they ended.         *)
(***************************************************************************)
Service_getPremiumStatus(userId) ==
  /\ svcPc = "idle"
  /\ ServiceFrame
  /\ svcPc' = "awaitGet"
  /\ svcUser' = userId
  /\ repoLog' = Append(repoLog, RepoGet(userId))
  /\ UNCHANGED <<svcStatus, svcResult, svcGot, svcValid, svcUpdated>>

\* repository.getPremiumStatus has settled as got; isPremiumValid, if it is
\* reached, ends as valid and the clock reads stamp
Service_got(got, valid, stamp) ==
  /\ svcPc = "awaitGet"
  /\ ServiceFrame
  /\ LET validated == got.kind = "return" /\ ~Falsy(got.value)
         step == getPremiumStatusGot(got, valid)
     IN  /\ svcGot' = got
         /\ svcStatus' = IF validated THEN got.value ELSE svcStatus
         /\ svcValid' = IF validated THEN valid ELSE svcValid
         /\ IF step.kind = "await"
              THEN /\ svcPc' = "awaitUpdate"
                   /\ repoLog' = repoLog \o
                        <<RepoValid(got.value),
                          updatePremiumStatus(svcUser, ExpiredUpdates, stamp)>>
                   /\ UNCHANGED svcResult
              ELSE /\ svcPc' = "done"
                   /\ svcResult' = step
                   /\ repoLog' = IF validated
                                   THEN Append(repoLog, RepoValid(got.value))
                                   ELSE repoLog
  /\ UNCHANGED <<svcUser, svcUpdated>>

\* repository.updatePremiumStatus has settled as updated
Service_updated(updated) ==
  /\ svcPc = "awaitUpdate"
  /\ ServiceFrame
  /\ svcPc' = "done"
  /\ svcUpdated' = updated
  /\ svcResult' = getPremiumStatusUpdated(svcStatus, updated)
  /\ UNCHANGED <<svcUser, svcStatus, repoLog, svcGot, svcValid>>

ServiceNext ==
  \/ \E u \in ServiceUserIds : Service_getPremiumStatus(u)
  \/ \E v \in RepoGetValues, valid \in ValidityOutcomes, t \in Timestamps :
       Service_got(Return(v), valid, t)
  \/ \E c \in RepoCauses, valid \in ValidityOutcomes, t \in Timestamps :
       Service_got(Throw(c), valid, t)
  \/ \E v \in RepoRecords : Service_updated(Return(v))
  \/ \E c \in RepoCauses : Service_updated(Throw(c))

SpecService == Init /\ [][ServiceNext]_vars

(***************************************************************************)
(* State machine of the premium store with useUserTier mounted on it.      *)
(* serviceCalls lists, in the order they were started, the calls to the    *)
(* premium service the store is awaiting. latestAnswer is the answer to    *)
(* the call started last, kept from the moment it arrives for as long as   *)
(* calls started before it are awaited. lastOp is the operation that led   *)
(* to the current state: who ran (the host, the service answering, or the  *)
(* hook's render, effect or refresh), the store action it invoked, whether *)
(* that action called the service, and for an answer of the service how    *)
(* the call settled. statusOwner is the userId of the call the status in   *)
(* the store came from. stale says that the store has notified the hook    *)
(* since its last render. A render is followed by its effect before the    *)
(* component renders again.                                                *)
(***************************************************************************)
StartedCall(op, userId) == [op |-> op, userId |-> userId]
Pending(i) == i \in 1..Len(serviceCalls)
\* the calls still awaited once call i has settled
Remove(calls, i) == SubSeq(calls, 1, i - 1) \o SubSeq(calls, i + 1, Len(calls))
Mounted == hookOut # NoResult

\* who ran, the store action invoked, and whether it called the service
Op(by, op, userId, called) ==
  [by |-> by, op |-> op, userId |-> userId, called |-> called, settled |-> NoResult]
\* the service answers the call of the store action op for userId
Answer(op, userId, settled) ==
  [by |-> "service", op |-> op, userId |-> userId, called |-> FALSE,
   settled |-> settled]

\* the part of a store action before its await
StoreAction(op, state) ==
  CASE op = "loadPremiumStatus" -> loadPremiumStatus(state)
    [] op = "refreshPremiumStatus" -> refreshPremiumStatus(state)
    [] op = "updatePremiumStatus" -> storeUpdatePremiumStatus(state)

\* the part of a store action after its await
StoreActionSettled(op, state, settled) ==
  CASE op = "loadPremiumStatus" -> loadPremiumStatusSettled(state, settled)
    [] op = "refreshPremiumStatus" -> refreshPremiumStatusSettled(state, settled)
    [] op = "updatePremiumStatus" -> storeUpdatePremiumStatusSettled(state, settled)

\* by invokes the store action op for userId; every path that calls the
\* service has called set before, which notifies the mounted hook
Invoke(by, op, userId) ==
  LET r == StoreAction(op, storeState)
  IN  /\ r.calls => Len(serviceCalls) < MaxCalls
      /\ storeState' = r.state
      /\ serviceCalls' = IF r.calls THEN Append(serviceCalls, StartedCall(op, userId))
                                    ELSE serviceCalls
      /\ lastOp' = Op(by, op, userId, r.calls)
      /\ stale' = (Mounted /\ (stale \/ r.calls))
      /\ latestAnswer' = IF r.calls THEN NoResult ELSE latestAnswer
      /\ UNCHANGED <<statusOwner, isPremiumValid>>

Store_loadPremiumStatus(userId) ==
  /\ StoreFrame
  /\ Invoke("host", "loadPremiumStatus", userId)
  /\ UNCHANGED <<hookProps, hookOut, hookMemo, hookCallback, effectDeps, effectPending>>

Store_refreshPremiumStatus(userId) ==
  /\ StoreFrame
  /\ Invoke("host", "refreshPremiumStatus", userId)
  /\ UNCHANGED <<hookProps, hookOut, hookMemo, hookCallback, effectDeps, effectPending>>

\* the updates are handed to the service untouched and leave no trace in the store
Store_updatePremiumStatus(userId) ==
  /\ StoreFrame
  /\ Invoke("host", "updatePremiumStatus", userId)
  /\ UNCHANGED <<hookProps, hookOut, hookMemo, hookCallback, effectDeps, effectPending>>

Store_clearPremiumStatus ==
  /\ StoreFrame
  /\ storeState' = clearPremiumStatus(storeState)
  /\ lastOp' = Op("host", "clearPremiumStatus", null, FALSE)
  /\ stale' = Mounted
  /\ statusOwner' = null
  /\ UNCHANGED <<serviceCalls, latestAnswer, isPremiumValid>>
  /\ UNCHANGED <<hookProps, hookOut, hookMemo, hookCallback, effectDeps, effectPending>>

\* the service call i settles and the store action awaiting it runs to its end
ServiceSettles(i, settled) ==
  /\ StoreFrame
  /\ Pending(i)
  /\ storeState' = StoreActionSettled(serviceCalls[i].op, storeState, settled)
  /\ serviceCalls' = Remove(serviceCalls, i)
  /\ lastOp' = Answer(serviceCalls[i].op, serviceCalls[i].userId, settled)
  /\ latestAnswer' =
       CASE Len(serviceCalls) = 1 -> NoResult
         [] i = Len(serviceCalls) /\ latestAnswer = NoResult ->
              [op |-> serviceCalls[i].op, settled |-> settled]
         [] OTHER -> latestAnswer
  /\ statusOwner' = CASE settled.kind = "return" -> serviceCalls[i].userId
                      [] storeState'.status = null -> null
                      [] OTHER -> statusOwner
  /\ stale' = (Mounted /\ (stale \/ StorePromise(settled).kind = "return"))
  /\ UNCHANGED isPremiumValid
  /\ UNCHANGED <<hookProps, hookOut, hookMemo, hookCallback, effectDeps, effectPending>>

\* the component renders useUserTier({ isGuest, userId, ... })
Hook_render(isGuestFlag, userId) ==
  /\ StoreFrame
  /\ ~effectPending
  /\ LET r == useUserTier(isGuestFlag, userId, storeState, hookMemo, hookCallback,
                          isPremiumValid)
     IN  /\ hookOut' = r.out
         /\ hookMemo' = r.memo
         /\ hookCallback' = r.callback
  /\ hookProps' = [isGuest |-> isGuestFlag, userId |-> userId]
  /\ effectPending' = (effectDeps = NoResult \/ effectDeps.deps # <<userId, isGuestFlag>>)
  /\ stale' = FALSE
  /\ lastOp' = Op("render", "none", null, FALSE)
  /\ UNCHANGED <<storeState, serviceCalls, statusOwner, latestAnswer, isPremiumValid,
                 effectDeps>>

\* a hook callback runs and invokes at most one store action
HookInvoke(by, invoked) ==
  IF invoked.op = "none"
    THEN /\ lastOp' = Op(by, "none", null, FALSE)
         /\ UNCHANGED <<storeState, serviceCalls, statusOwner, latestAnswer,
                        isPremiumValid, stale>>
    ELSE Invoke(by, invoked.op, invoked.userId)

\* the effect of the last render runs: its dependencies had changed
Hook_effect ==
  /\ StoreFrame
  /\ effectPending
  /\ effectPending' = FALSE
  /\ effectDeps' = Memoized(<<hookProps.userId, hookProps.isGuest>>, null)
  /\ HookInvoke("effect", useEffect(hookProps.isGuest, hookProps.userId))
  /\ UNCHANGED <<hookProps, hookOut, hookMemo, hookCallback>>

\* the application calls the refresh function the last render returned
Hook_refresh ==
  /\ StoreFrame
  /\ Mounted
  /\ hookOut.kind = "return"
  /\ HookInvoke("refresh", refresh(hookOut.value.refresh))
  /\ UNCHANGED <<hookProps, hookOut, hookMemo, hookCallback, effectDeps, effectPending>>

StoreNext ==
  \/ \E userId \in StoreUserIds : Store_loadPremiumStatus(userId)
  \/ \E userId \in StoreUserIds : Store_refreshPremiumStatus(userId)
  \/ \E userId \in StoreUserIds : Store_updatePremiumStatus(userId)
  \/ Store_clearPremiumStatus
  \/ \E i \in 1..MaxCalls, settled \in StoreSettlements : ServiceSettles(i, settled)

SpecStore == Init /\ [][StoreNext]_vars

HookNext ==
  \/ \E isGuestFlag \in HookGuestFlags, userId \in HookUserIds :
        Hook_render(isGuestFlag, userId)
  \/ Hook_effect
  \/ Hook_refresh
  \/ \E i \in 1..MaxCalls, settled \in HookSettlements : ServiceSettles(i, settled)

SpecHook == Init /\ [][HookNext]_vars

(***************************************************************************)
(* Properties                                                              *)
(***************************************************************************)
IsBoolean(v) == v.k = "boolean"
\* a string with at least one character that is not white space
NonBlankString(v) ==
  /\ v.k = "string"
  /\ \E i \in 1..Len(v.s) : SubSeq(v.s, i, i) \notin WhiteSpace
ValidUserId(v) == v = null \/ NonBlankString(v)
ValidTierInputs(g, u, p) == IsBoolean(g) /\ ValidUserId(u) /\ IsBoolean(p)
IsTypeError(r) == r.kind = "throw" /\ r.error.k = "error" /\ r.error.name = "TypeError"

GuestTierInfo ==
  [tier |-> "guest", isPremium |-> false, isGuest |-> true,
   isAuthenticated |-> false, userId |-> null]

Done(fn) == pc = "done" /\ call.fn = fn

\* C1: for valid inputs with isGuest = true or userId = null, getUserTierInfo
\* returns exactly the guest tier info: isPremium false, userId null.
C1_GuestRule ==
  (/\ Done("getUserTierInfo")
   /\ ValidTierInputs(call.isGuestFlag, call.userId, call.isPremium)
   /\ (call.isGuestFlag = true \/ call.userId = null))
  => result = Return(GuestTierInfo)

\* a guest-flagged call that supplied a user id and a true premium flag
C1_Witness ==
  /\ Done("getUserTierInfo")
  /\ call.isGuestFlag = true
  /\ NonBlankString(call.userId)
  /\ call.isPremium = true
  /\ result.kind = "return"

\* C2: for isGuest = false and a non-blank userId, getUserTierInfo returns
\* premium or freemium after isPremium, isPremium and userId verbatim,
\* isGuest false and isAuthenticated true.
C2_AuthenticatedRule ==
  (/\ Done("getUserTierInfo")
   /\ call.isGuestFlag = false
   /\ NonBlankString(call.userId)
   /\ IsBoolean(call.isPremium))
  => result = Return([tier |-> IF call.isPremium = true THEN "premium" ELSE "freemium",
                      isPremium |-> call.isPremium, isGuest |-> false,
                      isAuthenticated |-> true, userId |-> call.userId])

\* an authenticated premium call whose userId has white space around it
C2_Witness ==
  /\ Done("getUserTierInfo")
  /\ call.isGuestFlag = false
  /\ NonBlankString(call.userId)
  /\ Len(call.userId.s) > 1
  /\ Head(call.userId.s) \in WhiteSpace
  /\ call.isPremium = true
  /\ result.kind = "return"
  /\ result.value.tier = "premium"

\* C3: getUserTierInfo throws a TypeError whenever one of its arguments is
\* invalid, also when isGuest is true: validation precedes the guest rule.
C3_InvalidArgument ==
  (/\ Done("getUserTierInfo")
   /\ ~ValidTierInputs(call.isGuestFlag, call.userId, call.isPremium))
  => IsTypeError(result)

\* a guest-flagged call with a blank userId, or with a non-boolean isPremium
C3_Witness ==
  /\ Done("getUserTierInfo")
  /\ call.isGuestFlag = true
  /\ call.userId = JSStr(" ")
  /\ IsBoolean(call.isPremium)
  /\ IsTypeError(result)

ValidFetcher(f) == f.k = "object" /\ f.isPremium.k = "function"
GuestClassified(g, u) == g = true \/ u = null

\* C4: for guest-classified valid inputs and a valid fetcher, getIsPremium,
\* getUserTierInfoAsync and checkPremiumAccessAsync never invoke
\* fetcher.isPremium and resolve to false / the guest tier info.
C4_AsyncShortCircuit ==
  (/\ call.fn \in AsyncFns
   /\ IsBoolean(call.isGuestFlag)
   /\ ValidUserId(call.userId)
   /\ GuestClassified(call.isGuestFlag, call.userId)
   /\ ValidFetcher(call.fetcher))
  => /\ fetchLog = <<>>
     /\ fetched = NoResult
     /\ pc = "done"
     /\ result = IF call.fn = "getUserTierInfoAsync"
                   THEN Return(GuestTierInfo)
                   ELSE Return(false)

\* getUserTierInfoAsync for a user id supplied together with a true guest flag
C4_Witness ==
  /\ Done("getUserTierInfoAsync")
  /\ call.isGuestFlag = true
  /\ NonBlankString(call.userId)
  /\ ValidFetcher(call.fetcher)
  /\ fetchLog = <<>>
  /\ result = Return(GuestTierInfo)

\* C5: for isGuest = false and a non-blank userId, getUserTierInfoAsync
\* invokes fetcher.isPremium exactly once, with that userId, and when the
\* fetcher resolves to b the result is getUserTierInfo(false, userId, b).
C5_AsyncFetchOnce ==
  (/\ call.fn = "getUserTierInfoAsync"
   /\ call.isGuestFlag = false
   /\ NonBlankString(call.userId)
   /\ ValidFetcher(call.fetcher))
  => /\ fetchLog = <<call.userId>>
     /\ (pc = "done" /\ fetched.kind = "return")
          => result = getUserTierInfo(false, call.userId, fetched.value)

\* the fetcher was invoked once and resolved to true: the tier is premium
C5_Witness ==
  /\ Done("getUserTierInfoAsync")
  /\ call.isGuestFlag = false
  /\ fetchLog = <<call.userId>>
  /\ fetched = Return(true)
  /\ result.kind = "return"
  /\ result.value.tier = "premium"

\* the text the rejection's message ends with
CauseText(c) ==
  CASE c.k = "error" -> c.message
    [] c.k = "string" -> c.s
    [] c = JSNum(503) -> "503"
    [] c = undefined -> "undefined"

C7_GetIsPremiumValidates ==
  (/\ call.fn = "getIsPremium"
   /\ \/ ~IsBoolean(call.isGuestFlag)
      \/ ~ValidUserId(call.userId)
      \/ ~ValidFetcher(call.fetcher))
  => /\ pc = "done"
     /\ IsTypeError(result)
     /\ fetchLog = <<>>

\* getIsPremium(true, null, {}) rejects
C7_Witness ==
  /\ Done("getIsPremium")
  /\ call.isGuestFlag = true
  /\ call.userId = null
  /\ call.fetcher = JSObject(undefined)
  /\ IsTypeError(result)

ValidIdentity(g, u) == IsBoolean(g) /\ ValidUserId(u)

\* C8: for valid (isGuest, userId), isAuthenticated = (not isGuest and userId
\* not null); it equals the isAuthenticated field of getUserTierInfo for
\* either premium flag and is never true when that tier is 'guest'.
C8_IsAuthenticatedAgrees ==
  (/\ Done("isAuthenticated")
   /\ ValidIdentity(call.isGuestFlag, call.userId))
  => /\ result = Return(JSBool(call.isGuestFlag = false /\ call.userId # null))
     /\ \A p \in {true, false} :
          LET info == getUserTierInfo(call.isGuestFlag, call.userId, p)
          IN  /\ info.kind = "return"
              /\ info.value.isAuthenticated = result.value
              /\ info.value.tier = "guest" => result.value = false

\* isAuthenticated(true, 'u') is false
C8_Witness ==
  /\ Done("isAuthenticated")
  /\ call.isGuestFlag = true
  /\ NonBlankString(call.userId)
  /\ result = Return(false)

\* C9: for valid (isGuest, userId), isGuest = (flag or userId null) and is
\* the negation of isAuthenticated; on invalid inputs both throw the same
\* TypeError.
C9_IsGuestComplement ==
  /\ (Done("isGuest") /\ ValidIdentity(call.isGuestFlag, call.userId))
       => /\ result = Return(JSBool(call.isGuestFlag = true \/ call.userId = null))
          /\ LET a == isAuthenticated(call.isGuestFlag, call.userId)
             IN  a.kind = "return" /\ a.value.b = ~result.value.b
  /\ (Done("isGuest") /\ ~ValidIdentity(call.isGuestFlag, call.userId))
       => /\ IsTypeError(result)
          /\ result = isAuthenticated(call.isGuestFlag, call.userId)
  /\ (Done("isAuthenticated") /\ ~ValidIdentity(call.isGuestFlag, call.userId))
       => /\ IsTypeError(result)
          /\ result = isGuest(call.isGuestFlag, call.userId)

\* isGuest(false, null) is true
C9_Witness ==
  /\ Done("isGuest")
  /\ call.isGuestFlag = false
  /\ call.userId = null
  /\ result = Return(true)

\* C10: checkPremiumAccess behaves like reading .isPremium off
\* getUserTierInfo: false for guest-classified users, isPremium verbatim
\* otherwise, and the same TypeError on the same inputs.
C10_CheckPremiumAccessEquivalent ==
  Done("checkPremiumAccess")
  => /\ LET info == getUserTierInfo(call.isGuestFlag, call.userId, call.isPremium)
        IN  result = IF info.kind = "throw" THEN info
                     ELSE Return(info.value.isPremium)
     /\ ValidTierInputs(call.isGuestFlag, call.userId, call.isPremium)
          => result = IF GuestClassified(call.isGuestFlag, call.userId)
                        THEN Return(false)
                        ELSE Return(call.isPremium)
     /\ ~ValidTierInputs(call.isGuestFlag, call.userId, call.isPremium)
          => IsTypeError(result)

\* checkPremiumAccess(false, null, true) is false
C10_Witness ==
  /\ Done("checkPremiumAccess")
  /\ call.isGuestFlag = false
  /\ call.userId = null
  /\ call.isPremium = true
  /\ result = Return(false)

\* the pairs (a, b) with rank(a) >= rank(b), guest = 0 < freemium = 1 < premium = 2
AccessPairs ==
  {<<"guest", "guest">>, <<"freemium", "guest">>, <<"freemium", "freemium">>,
   <<"premium", "guest">>, <<"premium", "freemium">>, <<"premium", "premium">>}

\* C11: hasTierAccess(a, b) is true iff rank(a) >= rank(b) with guest = 0,
\* freemium = 1, premium = 2; in particular hasTierAccess(t, t) is true.
C11_TierOrder ==
  Done("hasTierAccess")
  => /\ result = Return(JSBool(<<call.tier1, call.tier2>> \in AccessPairs))
     /\ call.tier1 = call.tier2 => result = Return(true)

\* hasTierAccess('guest', 'guest') is true
C11_Witness ==
  /\ Done("hasTierAccess")
  /\ call.tier1 = "guest"
  /\ call.tier2 = "guest"
  /\ result = Return(true)

\* t occurs in s
Contains(s, t) ==
  \E i \in 1..(Len(s) - Len(t) + 1) : SubSeq(s, i, i + Len(t) - 1) = t

\* what typeof yields for the value
TypeName(v) == IF v.k = "null" THEN "object" ELSE v.k

\* the functions that validate isGuest and userId, and those that validate isPremium
IdentityFns == {"isAuthenticated", "isGuest", "getUserTierInfo", "checkPremiumAccess"}
               \cup AsyncFns
PremiumFns == {"getUserTierInfo", "checkPremiumAccess"}

\* the invalid arguments of the call, as <<parameter, value, position>>
Offenders ==
  {o \in {<<"isGuest", call.isGuestFlag, 1>>, <<"userId", call.userId, 2>>} :
     \/ o[1] = "isGuest" /\ ~IsBoolean(o[2])
     \/ o[1] = "userId" /\ ~ValidUserId(o[2])}
  \cup (IF call.fn \in PremiumFns /\ ~IsBoolean(call.isPremium)
          THEN {<<"isPremium", call.isPremium, 3>>} ELSE {})

\* the invalid argument the validation meets first
FirstOffender == CHOOSE o \in Offenders : \A q \in Offenders : o[3] <= q[3]

\* the call ended in the TypeError of validateIsGuest, validateUserId or validateIsPremium
ArgumentRejected ==
  /\ pc = "done"
  /\ call.fn \in IdentityFns
  /\ Offenders # {}

\* C13 as stated: every invalid-argument error names the offending parameter
\* and the actual type of the value supplied, also for a blank userId.
C13_NamesParameterAndType ==
  ArgumentRejected
  => /\ IsTypeError(result)
     /\ Contains(result.error.message, FirstOffender[1])
     /\ Contains(result.error.message, "got " \o TypeName(FirstOffender[2]))

\* C13 amended: every invalid-argument error names the offending parameter;
\* a non-boolean isGuest or isPremium and a userId that is neither string nor
\* null are reported as 'expected ..., got <typeof value>', while an empty or
\* whitespace-only userId is reported as 'Invalid userId: cannot be empty
\* string', with no type.
C13_ErrorMessages ==
  ArgumentRejected
  => /\ IsTypeError(result)
     /\ Contains(result.error.message, "Invalid " \o FirstOffender[1] \o ": ")
     /\ IF FirstOffender[1] = "userId" /\ FirstOffender[2].k = "string"
          THEN result.error.message = "Invalid userId: cannot be empty string"
          ELSE Contains(result.error.message,
                        "expected " \o (IF FirstOffender[1] = "userId"
                                          THEN "string or null" ELSE "boolean")
                          \o ", got " \o TypeName(FirstOffender[2]))

\* getUserTierInfo(false, ' ', p) rejected for its whitespace-only userId
C13_Witness ==
  /\ Done("getUserTierInfo")
  /\ call.isGuestFlag = false
  /\ call.userId = JSStr(" ")
  /\ IsTypeError(result)
  /\ result.error.message = "Invalid userId: cannot be empty string"

\* the free status: isPremium false and every other field null
DefaultFree ==
  [isPremium |-> false, expiresAt |-> null, productId |-> null,
   purchasedAt |-> null, revenuecatCustomerId |-> null, syncedAt |-> null]

RepoHasNoRecord == svcGot.kind = "return" /\ svcGot.value \in {null, undefined}
RepoCallThrew ==
  svcGot.kind = "throw" \/ svcValid.kind = "throw" \/ svcUpdated.kind = "throw"

\* C18: getPremiumStatus never rejects; when the repository has no record
\* or any repository call made during it throws, it resolves to the default
\* free status.
C18_NeverRejects ==
  svcPc = "done"
  => /\ svcResult.kind = "return"
     /\ (RepoHasNoRecord \/ RepoCallThrew) => svcResult = Return(DefaultFree)

\* the write of an expired status was rejected and the call still resolved
C18_Witness ==
  /\ svcPc = "done"
  /\ svcUpdated.kind = "throw"
  /\ svcResult = Return(DefaultFree)

\* the repository returned a record and isPremiumValid answered
RepoAnswered ==
  /\ svcGot.kind = "return"
  /\ svcGot.value \notin {null, undefined}
  /\ svcValid.kind = "return"
\* ... a premium record that is no longer valid
RepoExpired == RepoAnswered /\ svcGot.value.isPremium = true /\ svcValid.value = false

UpdatesInLog == {i \in 1..Len(repoLog) : repoLog[i].op = "updatePremiumStatus"}
\* the only write is {isPremium: false, expiresAt: null, syncedAt} for the user
ExpiryWritten ==
  /\ Cardinality(UpdatesInLog) = 1
  /\ \A i \in UpdatesInLog :
       /\ repoLog[i].userId = svcUser
       /\ DOMAIN repoLog[i].updates = {"isPremium", "expiresAt", "syncedAt"}
       /\ repoLog[i].updates.isPremium = false
       /\ repoLog[i].updates.expiresAt = null
       /\ repoLog[i].updates.syncedAt.k = "string"
       /\ repoLog[i].updates.syncedAt.s \in Timestamps
ExpiredStatus == [svcGot.value EXCEPT !.isPremium = false, !.expiresAt = null]

\* C19 as stated: an expired premium status is written back as {isPremium:
\* false, expiresAt: null, syncedAt} and the call resolves to that status with
\* isPremium false and expiresAt null; a valid or non-premium status is
\* returned unchanged without a write.
C19_ExpiredWritten ==
  (svcPc = "done" /\ RepoAnswered)
  => IF RepoExpired
       THEN ExpiryWritten /\ svcResult = Return(ExpiredStatus)
       ELSE UpdatesInLog = {} /\ svcResult = Return(svcGot.value)

\* C19 amended: the write is made, and the call resolves to that status with
\* isPremium false and expiresAt null when the write succeeds and to the
\* default free status when the write is rejected; a valid or non-premium
\* status is returned unchanged without a write.
C19_ExpiredWrittenIfStored ==
  /\ (svcPc = "awaitUpdate") => (RepoExpired /\ ExpiryWritten)
  /\ (svcPc = "done" /\ RepoAnswered)
       => IF RepoExpired
            THEN /\ ExpiryWritten
                 /\ svcResult = IF svcUpdated.kind = "return"
                                  THEN Return(ExpiredStatus)
                                  ELSE Return(DefaultFree)
            ELSE UpdatesInLog = {} /\ svcResult = Return(svcGot.value)

\* an expired monthly subscription, written back and returned without expiry
C19_Witness ==
  /\ svcPc = "done"
  /\ RepoExpired
  /\ svcGot.value.expiresAt # null
  /\ svcUpdated.kind = "return"
  /\ svcResult.value.isPremium = false
  /\ svcResult.value.expiresAt = null
  /\ svcResult.value.productId = svcGot.value.productId

\* the step is a call of the store action op (by the host or by the hook)
StoreStep(op) == lastOp'.op = op /\ lastOp'.by # "service"
GuardHolds == storeState.loading \/ storeState.status # null

\* C20: loadPremiumStatus called while loading is true or status is non-null
\* calls the premium service not at all and leaves status, loading and error
\* as they were; called otherwise it has set loading = true and error = null
\* and made one getPremiumStatus call for its userId when it suspends
C20_GuardedLoad ==
  [][StoreStep("loadPremiumStatus") =>
       IF GuardHolds
         THEN storeState' = storeState /\ serviceCalls' = serviceCalls
         ELSE /\ storeState'.loading = TRUE
              /\ storeState'.error = null
              /\ serviceCalls' = Append(serviceCalls,
                                        StartedCall("loadPremiumStatus", lastOp'.userId))]_vars

\* C20 witness: a loadPremiumStatus that returned at its guard while an
\* earlier call was still loading
C20_Witness ==
  /\ lastOp.by = "host"
  /\ lastOp.op = "loadPremiumStatus"
  /\ ~lastOp.called
  /\ storeState.loading
  /\ serviceCalls # <<>>

\* the hook has rendered, and the store has not notified it since
Current == Mounted /\ hookOut.kind = "return" /\ ~stale
TierFields(r) ==
  [tier |-> r.tier, isPremium |-> r.isPremium, isGuest |-> r.isGuest,
   isAuthenticated |-> r.isAuthenticated, userId |-> r.userId]
\* the premium boolean of the status the store holds now
PremiumNow == JSBool(storeState.status # null /\ storeState.status \in isPremiumValid)
GuestInputs == hookProps.isGuest.b \/ hookProps.userId = null

C15_LoadingErrorPassThrough ==
  Current =>
    /\ hookOut.value.isLoading = storeState.loading
    /\ hookOut.value.error = storeState.error
    /\ storeState = InitialStoreState =>
         hookOut.value.isLoading = FALSE /\ hookOut.value.error = null

\* C15 witness: a guest render over a store that holds the error of a failed
\* call
C15_Witness ==
  /\ Current
  /\ GuestInputs
  /\ hookOut.value.tier = "guest"
  /\ storeState.error = JSStr("permission-denied")
  /\ hookOut.value.error = JSStr("permission-denied")
  /\ ~hookOut.value.isLoading

\* the step is a call of the refresh function of the latest render
RefreshStep == lastOp'.by = "refresh"

\* C16: refresh() invokes refreshPremiumStatus once, with the userId of the
\* latest render, when that render's inputs are authenticated, which starts one
\* service call for that userId; for guest-classified inputs it invokes no
\* store action and leaves the store and the hook as they were
C16_RefreshInvokesOnce ==
  [][RefreshStep =>
       IF GuestInputs
         THEN /\ lastOp'.op = "none"
              /\ UNCHANGED <<storeState, serviceCalls, hookVars>>
         ELSE /\ lastOp'.op = "refreshPremiumStatus"
              /\ lastOp'.userId = hookProps.userId
              /\ serviceCalls' = Append(serviceCalls,
                     StartedCall("refreshPremiumStatus", hookProps.userId))]_vars

\* C16 witness: refresh() of a hook rendered for user v after it had been
\* rendered for user u has invoked refreshPremiumStatus('v')
C16_Witness ==
  /\ lastOp = Op("refresh", "refreshPremiumStatus", JSStr("v"), TRUE)
  /\ hookProps = [isGuest |-> false, userId |-> JSStr("v")]
  /\ \E i \in 1..Len(serviceCalls) : serviceCalls[i].userId = JSStr("u")
  /\ serviceCalls[Len(serviceCalls)] = StartedCall("refreshPremiumStatus", JSStr("v"))

\* the operation that led here was run by the hook
ByHook == lastOp.by \in {"render", "effect", "refresh"}

StatusValid == storeState.status # null /\ storeState.status \in isPremiumValid
ReportsPremium == hookOut.value.isPremium = true \/ hookOut.value.tier = "premium"

AnswerStep == lastOp'.by = "service"
\* the text an operation stores when the failure carries no message
DefaultText(op) ==
  CASE op = "loadPremiumStatus" -> "Failed to load premium status"
    [] op = "refreshPremiumStatus" -> "Failed to refresh premium status"
    [] op = "updatePremiumStatus" -> "Failed to update premium status"
\* the message of a failure, if it has one
HasMessage(cause) == cause.k = "error" /\ cause.message # ""

\* C24: when the service call succeeds, each of the three actions sets status
\* to the returned value, loading to false and error to null; when it fails,
\* each sets loading to false and error to the failure's message or else to
\* its own default text, loadPremiumStatus sets status to null, and
\* refreshPremiumStatus and updatePremiumStatus leave status as it was
C24_FailureKeepsStatus ==
  [][AnswerStep =>
       LET op == lastOp'.op
           settled == lastOp'.settled
       IN  IF settled.kind = "return"
             THEN storeState' = StoreState(settled.value, FALSE, null)
             ELSE /\ storeState'.loading = FALSE
                  /\ storeState'.error =
                       IF HasMessage(settled.error) THEN JSStr(settled.error.message)
                       ELSE JSStr(DefaultText(op))
                  /\ storeState'.status =
                       IF op = "loadPremiumStatus" THEN null ELSE storeState.status]_vars

\* C25: whenever no call of the store is awaiting the premium service, loading
\* is false; and the state is {status: null, loading: false, error: null}
\* before any action and right after clearPremiumStatus
C25_QuietStoreNotLoading ==
  /\ serviceCalls = <<>> => ~storeState.loading
  /\ (lastOp.by = "none" \/ lastOp.op = "clearPremiumStatus") =>
       storeState = InitialStoreState

\* the call started last was a refreshPremiumStatus and has fetched a status,
\* which the store holds, while an earlier call is still awaited
LaterRefreshFetched ==
  /\ latestAnswer # NoResult
  /\ latestAnswer.op = "refreshPremiumStatus"
  /\ latestAnswer.settled.kind = "return"
  /\ storeState.status = latestAnswer.settled.value

\* C26: when a refreshPremiumStatus started while an earlier one was awaiting
\* the service has fetched its status first, the answer to the earlier one,
\* which completes both, leaves the status of the later-started call in the store
C26_LaterRefreshWins ==
  [][(/\ LaterRefreshFetched
      /\ AnswerStep
      /\ lastOp'.op = "refreshPremiumStatus"
      /\ serviceCalls' = <<>>) =>
       storeState'.status = latestAnswer.settled.value]_vars

\* the hook has rendered and run its effect, and the store is at rest: no call
\* is awaited and loading is false
LoadingSettled ==
  Current /\ ~effectPending /\ serviceCalls = <<>> /\ ~storeState.loading
\* the step is the effect of the latest render
EffectStep == lastOp'.by = "effect"

\* C21: the effect invokes loadPremiumStatus with the rendered userId for
\* authenticated inputs and nothing for a guest's; and once loading has
\* settled under an authenticated user, a status the store holds was fetched
\* for that user, never for the one rendered before
C21_LoadsForCurrentUser ==
  /\ [][EffectStep =>
          IF GuestInputs THEN lastOp'.op = "none"
          ELSE lastOp'.op = "loadPremiumStatus" /\ lastOp'.userId = hookProps.userId]_vars
  /\ []((LoadingSettled /\ ~GuestInputs /\ storeState.status # null) =>
          statusOwner = hookProps.userId)

\* hasTierAccess(a, b) is true
Grants(a, b) == hasTierAccess(a, b) = Return(true)

\* C28: for the tiers a, b of a call and every tier c, hasTierAccess is
\* transitive (a over b and b over c give a over c), antisymmetric (a over b
\* and b over a give a = b) and total (a over b or b over a)
C28_TotalOrder ==
  Done("hasTierAccess") =>
    LET a == call.tier1
        b == call.tier2
        ab == result = Return(true)
    IN  /\ \A c \in UserTier : (ab /\ Grants(b, c)) => Grants(a, c)
        /\ \A c \in UserTier : (Grants(c, a) /\ ab) => Grants(c, b)
        /\ (ab /\ Grants(b, a)) => a = b
        /\ ab \/ Grants(b, a)

\* C28 witness: hasTierAccess('guest', 'premium') is false while
\* hasTierAccess('premium', 'guest') is true
C28_Witness ==
  /\ Done("hasTierAccess")
  /\ call.tier1 = "guest"
  /\ call.tier2 = "premium"
  /\ result = Return(false)
  /\ Grants("premium", "guest")

\* C27: a UserTierInfo returned by getUserTierInfo has isGuest = not
\* isAuthenticated, tier 'guest' iff isGuest, tier 'premium' iff isPremium,
\* userId null iff isGuest, one of the three tiers, and passes isUserTierInfo
C27_TierInfoConsistent ==
  (Done("getUserTierInfo") /\ result.kind = "return") =>
    LET info == result.value
    IN  /\ info.isGuest.b = ~info.isAuthenticated.b
        /\ info.tier = "guest" <=> info.isGuest.b
        /\ info.tier = "premium" <=> info.isPremium.b
        /\ info.userId = null <=> info.isGuest.b
        /\ Cardinality({t \in UserTier : info.tier = t}) = 1
        /\ isUserTierInfo(info) = Return(true)

\* C27 witness: getUserTierInfo(true, 'u', true), a guest called with a
\* userId and a premium flag, has returned
C27_Witness ==
  /\ Done("getUserTierInfo")
  /\ call.isGuestFlag = true
  /\ call.userId = JSStr("u")
  /\ call.isPremium = true
  /\ result.kind = "return"
  /\ result.value.tier = "guest"

\* the finished call resolved to tier 'premium' (getUserTierInfoAsync) or to
\* true (checkPremiumAccessAsync)
PremiumResult ==
  /\ pc = "done"
  /\ result.kind = "return"
  /\ \/ call.fn = "getUserTierInfoAsync" /\ result.value.tier = "premium"
     \/ call.fn = "checkPremiumAccessAsync" /\ result.value = true

\* C29: getUserTierInfoAsync and checkPremiumAccessAsync resolve to premium
\* only if, during that call, fetcher.isPremium was invoked with the call's
\* userId and resolved to true; never for a guest flag, a null userId, a
\* fetcher failure or an invalid argument
C29_PremiumOnlyOnFetchersWord ==
  PremiumResult =>
    /\ fetchLog = <<call.userId>>
    /\ fetched = Return(true)
    /\ call.isGuestFlag = false
    /\ NonBlankString(call.userId)
    /\ call.fetcher = JSObject(JSFunction)

\* C29 witness: checkPremiumAccessAsync(false, 'u', fetcher) has resolved to
\* true after the fetcher was asked about 'u'
C29_Witness ==
  /\ PremiumResult
  /\ call.fn = "checkPremiumAccessAsync"
  /\ fetchLog = <<JSStr("u")>>

\* the finished call had valid arguments: isGuest and isPremium booleans,
\* userId null or a non-blank string
ValidCall == ValidTierInputs(call.isGuestFlag, call.userId, call.isPremium)

\* C30: on valid inputs the validating getUserTierInfo and checkPremiumAccess
\* return exactly what the earlier non-validating getUserTierInfo and
\* checkPremiumAccess return, whichever of the two variants is called
C30_VariantsAgreeOnValidInputs ==
  /\ (Done("getUserTierInfo") /\ ValidCall) =>
       result = NonValidating_getUserTierInfo(call.isGuestFlag, call.userId, call.isPremium)
  /\ (Done("checkPremiumAccess") /\ ValidCall) =>
       result = NonValidating_checkPremiumAccess(call.isGuestFlag, call.userId, call.isPremium)
  /\ (Done("NonValidating_getUserTierInfo") /\ ValidCall) =>
       result = getUserTierInfo(call.isGuestFlag, call.userId, call.isPremium)
  /\ (Done("NonValidating_checkPremiumAccess") /\ ValidCall) =>
       result = checkPremiumAccess(call.isGuestFlag, call.userId, call.isPremium)

\* C30 witness: the validating checkPremiumAccess(false, null, true), which
\* only the userId makes a guest call, has returned
C30_Witness ==
  /\ Done("checkPremiumAccess")
  /\ ValidCall
  /\ call.isGuestFlag = false
  /\ call.userId = null
  /\ call.isPremium = true
  /\ result = Return(false)

\* isGuest || !userId holds of the call's arguments
GuestByTruthiness == ToBoolean(call.isGuestFlag) \/ ~ToBoolean(call.userId)

\* C23: in the PremiumService variant checkPremiumAccess resolves to false
\* for guest-classified users without calling premiumService.isPremium; when
\* premiumService.isPremium rejects it resolves to false instead of
\* rejecting, and getUserTierInfoAsync of that variant yields 'freemium'
C23_ServiceVariantFailsSafe ==
  /\ (Done("ServiceVariant_checkPremiumAccess") /\ GuestByTruthiness) =>
       (result = Return(false) /\ fetchLog = <<>>)
  /\ (Done("ServiceVariant_checkPremiumAccess") /\ fetched.kind = "throw") =>
       result = Return(false)
  /\ (Done("ServiceVariant_getUserTierInfoAsync") /\ fetched.kind = "throw") =>
       (result.kind = "return" /\ result.value.tier = "freemium")

\* C23 witness: getUserTierInfoAsync(false, 'u', premiumService) has resolved
\* after premiumService.isPremium('u') rejected
C23_Witness ==
  /\ Done("ServiceVariant_getUserTierInfoAsync")
  /\ call.userId = JSStr("u")
  /\ fetchLog = <<JSStr("u")>>
  /\ fetched.kind = "throw"
  /\ result.kind = "return"


====
